---- MODULE Spec2Model ----
(***************************************************************************)
(* HealthcareCacheManager (GynAid-mobile/src/utils/HealthcareCacheManager.ts) *)
(* as a state machine: the in-memory Map (Fast Tier), AsyncStorage (Durable  *)
(* Tier), the setInterval sweeper, the start-up warmup and the async public  *)
(* methods, each split at its awaits.  JavaScript runs one continuation at a *)
(* time, so every action is the code between two awaits.                     *)
(***************************************************************************)
EXTENDS Integers, Sequences, FiniteSets, TLC

VARIABLES
    now,              \* Date.now(), in milliseconds
    ticks,            \* how often the clock has been read at a later instant
    memoryCache,      \* the Map, as the sequence of its [key, entry] pairs in insertion order
    storage,          \* AsyncStorage: storage key -> stored string
    faults,           \* the kinds of AsyncStorage call that currently reject
    cleanupInterval,  \* TRUE while the setInterval handle is set
    warm,             \* warmupCriticalCache: index of the key whose read is awaited
    sweep,            \* the performCleanup run in flight
    tasks,            \* the public async calls in flight, by slot
    calls,            \* public calls started so far
    fill,             \* record keys the caller has cached so far
    log,              \* the last two completed public calls, oldest first
    quiet,            \* the latest step of the cache was the return of the last call in log
    evict,            \* what the eviction of the latest step removed
    unhandled         \* a rejected promise nobody awaits has been seen

vars == <<now, ticks, memoryCache, storage, faults, cleanupInterval, warm, sweep,
          tasks, calls, fill, log, quiet, evict, unhandled>>

-----------------------------------------------------------------------------
(* Bounds of the model *)

MaxCalls == 2
MaxInFlight == 2
MaxTicks == 1
StartTime == 100000000
NumFillers == 61
MaxProbes == 2

-----------------------------------------------------------------------------
(* JavaScript values *)

\* A number-valued slot: a number, NaN, null (after JSON) or undefined.
Num(n) == [t |-> "num", n |-> n]
NaN == [t |-> "NaN", n |-> 0]
Null == [t |-> "null", n |-> 0]
Undefined == [t |-> "undefined", n |-> 0]

None == "null"            \* the null that get returns
UndefinedStr == "undefined"

\* x + y where y may be undefined: number + undefined is NaN.
JsAdd(x, y) == IF y.t = "num" THEN Num(x + y.n) ELSE NaN

\* x > y for a number x: y converts by ToNumber (null is 0, undefined is NaN).
JsGreater(x, y) ==
    CASE y.t = "num" -> x > y.n
      [] y.t = "null" -> x > 0
      [] OTHER -> FALSE

-----------------------------------------------------------------------------
(* Configuration *)

maxMemoryCacheSize == 50
storagePrefix == "gynaid_cache_"

Policy(age, p, ty) == [maxAge |-> age, priority |-> p, type |-> ty]

cacheConfigs ==
    [userProfile       |-> Policy(24 * 60 * 60 * 1000, "high", "critical"),
     medicalHistory    |-> Policy(12 * 60 * 60 * 1000, "high", "critical"),
     emergencyContacts |-> Policy(6 * 60 * 60 * 1000, "high", "critical"),
     appointments      |-> Policy(2 * 60 * 60 * 1000, "normal", "normal"),
     providers         |-> Policy(4 * 60 * 60 * 1000, "normal", "normal"),
     healthTips        |-> Policy(6 * 60 * 60 * 1000, "normal", "normal"),
     notifications     |-> Policy(30 * 60 * 1000, "low", "non-critical"),
     chatHistory       |-> Policy(2 * 60 * 60 * 1000, "low", "non-critical"),
     uiPreferences     |-> Policy(60 * 60 * 1000, "low", "non-critical")]

criticalKeys == <<"userProfile", "medicalHistory", "emergencyContacts">>

\* An object as the set of its own properties: a function from the names present.
NoConfig == [f \in {} |-> 0]

\* A merge in which the first object's properties win.
SpreadKeepsFirst(a, b) ==
    [f \in DOMAIN a \cup DOMAIN b |-> IF f \in DOMAIN a THEN a[f] ELSE b[f]]

\* { ...a, ...b }
Spread(a, b) ==
    [f \in DOMAIN a \cup DOMAIN b |-> IF f \in DOMAIN b THEN b[f] ELSE a[f]]

\* this.cacheConfigs[key]; spreading undefined adds nothing.
Lookup(key) == IF key \in DOMAIN cacheConfigs THEN cacheConfigs[key] ELSE NoConfig

NumField(o, f) == IF f \in DOMAIN o THEN Num(o[f]) ELSE Undefined
StrField(o, f) == IF f \in DOMAIN o THEN o[f] ELSE UndefinedStr

-----------------------------------------------------------------------------
(* Entries and JSON *)

NoEntry ==
    [data |-> "", timestamp |-> 0, expiresAt |-> Undefined,
     priority |-> UndefinedStr, type |-> UndefinedStr]

\* The entry set() builds (lines 116-125).
BuildEntry(key, data, customConfig, t) ==
    LET config == Spread(Lookup(key), customConfig)
    IN  [data |-> data,
         timestamp |-> t,
         expiresAt |-> JsAdd(t, NumField(config, "maxAge")),
         priority |-> StrField(config, "priority"),
         type |-> StrField(config, "type")]

\* JSON.stringify(entry): NaN is written as null, an undefined property is left out.
Stringify(e) ==
    [kind |-> "json",
     data |-> e.data,
     timestamp |-> e.timestamp,
     expiresAt |-> IF e.expiresAt.t = "num" THEN e.expiresAt ELSE Null,
     props |-> {"data", "timestamp", "expiresAt"}
               \cup (IF e.priority = UndefinedStr THEN {} ELSE {"priority"})
               \cup (IF e.type = UndefinedStr THEN {} ELSE {"type"}),
     priority |-> e.priority,
     type |-> e.type]

\* A stored string that is not JSON.
Corrupt ==
    [kind |-> "corrupt", data |-> "", timestamp |-> 0, expiresAt |-> Null,
     props |-> {}, priority |-> UndefinedStr, type |-> UndefinedStr]

\* A parse that loses the policy fields of the record.
ParseWithoutPolicy(s) ==
    [data |-> s.data, timestamp |-> s.timestamp, expiresAt |-> s.expiresAt,
     priority |-> UndefinedStr, type |-> UndefinedStr]

\* A stored string that is JSON but not an entry: the object {}.
Misshapen ==
    [kind |-> "json", data |-> UndefinedStr, timestamp |-> 0, expiresAt |-> Undefined,
     props |-> {}, priority |-> UndefinedStr, type |-> UndefinedStr]

\* JSON.parse(stored), for a string that parses.
Parse(s) ==
    [data |-> s.data,
     timestamp |-> s.timestamp,
     expiresAt |-> s.expiresAt,
     priority |-> IF "priority" \in s.props THEN s.priority ELSE UndefinedStr,
     type |-> IF "type" \in s.props THEN s.type ELSE UndefinedStr]

\* Date.now() > entry.expiresAt
isExpired(entry, t) == JsGreater(t, entry.expiresAt)

-----------------------------------------------------------------------------
(* The Map *)

MapKeys(m) == {m[i].key : i \in 1..Len(m)}
MapHas(m, k) == k \in MapKeys(m)
MapGet(m, k) == (CHOOSE i \in 1..Len(m) : m[i].key = k)
MapEntry(m, k) == m[MapGet(m, k)].entry

\* Map.prototype.set: an existing key keeps its place.
MapSet(m, k, e) ==
    IF MapHas(m, k)
    THEN [m EXCEPT ![MapGet(m, k)] = [key |-> k, entry |-> e]]
    ELSE Append(m, [key |-> k, entry |-> e])

MapDelete(m, k) == SelectSeq(m, LAMBDA p : p.key # k)

-----------------------------------------------------------------------------
(* Eviction (lines 220-241) *)

priorityOrder == [low |-> 0, normal |-> 1, high |-> 2]
typeOrder == ("non-critical" :> 0) @@ ("normal" :> 1) @@ ("critical" :> 2)

\* order[v]: undefined when v is not a property of order.
Rank(order, v) == IF v \in DOMAIN order THEN Num(order[v]) ELSE Undefined

\* priorityOrder[a.priority] + typeOrder[a.type]
Score(e) ==
    LET p == Rank(priorityOrder, e.priority)
        t == Rank(typeOrder, e.type)
    IN  IF p.t = "num" /\ t.t = "num" THEN Num(p.n + t.n) ELSE NaN

\* The comparator's result as Array.prototype.sort reads it: aScore - bScore,
\* and a NaN result counts as +0.
CompareFn(a, b) ==
    LET aScore == Score(a.entry)
        bScore == Score(b.entry)
    IN  IF aScore.t = "num" /\ bScore.t = "num" THEN aScore.n - bScore.n ELSE 0

\* Array.prototype.sort is stable.  With scores that are all numbers the
\* comparator is a consistent ordering and the result is the one stable order.
\* With a NaN score it is not, and the order is implementation-defined: the
\* outcomes modelled are those of the two stable algorithms engines use, a
\* linear insertion sort and a top-down merge sort.
Scored(s, v) == SelectSeq(s, LAMBDA p : Score(p.entry) = Num(v))
StableOrder(s) == Scored(s, 0) \o Scored(s, 1) \o Scored(s, 2) \o Scored(s, 3) \o Scored(s, 4)

Unscored(s) == {i \in 1..Len(s) : Score(s[i].entry).t # "num"}
FirstUnscored(s) == CHOOSE i \in Unscored(s) : \A j \in Unscored(s) : i <= j

\* Insertion sort moves an element left past the elements that compare greater:
\* no element passes an entry whose score is NaN (they compare as equal), so
\* the stretches between such entries are sorted each on its own.
RECURSIVE InsertionSort(_)
InsertionSort(s) ==
    IF Unscored(s) = {} THEN StableOrder(s)
    ELSE StableOrder(SubSeq(s, 1, FirstUnscored(s) - 1))
         \o <<s[FirstUnscored(s)]>>
         \o InsertionSort(SubSeq(s, FirstUnscored(s) + 1, Len(s)))

\* The elements at the head of l that a merge takes before the head of r, and
\* the elements at the head of r it takes before the head of l.
TakeLeft(l, r) ==
    IF \A i \in 1..Len(l) : CompareFn(l[i], r[1]) <= 0 THEN Len(l)
    ELSE (CHOOSE i \in 1..Len(l) :
             /\ CompareFn(l[i], r[1]) > 0
             /\ \A j \in 1..(i - 1) : CompareFn(l[j], r[1]) <= 0) - 1
TakeRight(l, r) ==
    IF \A i \in 1..Len(r) : CompareFn(l[1], r[i]) > 0 THEN Len(r)
    ELSE (CHOOSE i \in 1..Len(r) :
             /\ CompareFn(l[1], r[i]) <= 0
             /\ \A j \in 1..(i - 1) : CompareFn(l[1], r[j]) > 0) - 1

\* The stable merge: the head of l goes first unless it compares greater.
RECURSIVE Merge(_, _)
Merge(l, r) ==
    IF l = <<>> THEN r
    ELSE IF r = <<>> THEN l
    ELSE IF CompareFn(l[1], r[1]) <= 0
         THEN SubSeq(l, 1, TakeLeft(l, r))
              \o Merge(SubSeq(l, TakeLeft(l, r) + 1, Len(l)), r)
         ELSE SubSeq(r, 1, TakeRight(l, r))
              \o Merge(l, SubSeq(r, TakeRight(l, r) + 1, Len(r)))

RECURSIVE MergeSort(_)
MergeSort(s) ==
    IF Len(s) <= 1 THEN s
    ELSE LET h == Len(s) \div 2
         IN  Merge(MergeSort(SubSeq(s, 1, h)), MergeSort(SubSeq(s, h + 1, Len(s))))

SortOutcomes(s) == {InsertionSort(s), MergeSort(s)}

Max(a, b) == IF a >= b THEN a ELSE b
Min(a, b) == IF a <= b THEN a ELSE b

\* An eviction of 40% of the capacity.
toRemoveTwice == Max(1, (maxMemoryCacheSize * 4) \div 10)

\* Math.max(1, Math.floor(this.maxMemoryCacheSize * 0.2))
toRemove == Max(1, (maxMemoryCacheSize * 2) \div 10)

\* The pairs the loop of lines 236-240 deletes, given the sorted array.
Evicted(sorted) == SubSeq(sorted, 1, Min(toRemove, Len(sorted)))

evictFromMemoryCache(m, sorted) ==
    LET gone == {Evicted(sorted)[i].key : i \in 1..Len(Evicted(sorted))}
    IN  SelectSeq(m, LAMBDA p : p.key \notin gone)

NoEvict == [fired |-> FALSE, removed |-> <<>>]

-----------------------------------------------------------------------------
(* AsyncStorage *)

StorageKey(k) == [ns |-> storagePrefix, name |-> k]

\* A key another module of the application keeps in the same AsyncStorage.
ForeignKey == [ns |-> "auth_", name |-> "token"]
ForeignItem ==
    [kind |-> "other", data |-> "secret", timestamp |-> 0, expiresAt |-> Null,
     props |-> {}, priority |-> UndefinedStr, type |-> UndefinedStr]

\* A storage whose removeItem and multiRemove resolve without deleting.
removeNothing(st, sks) == st

setItem(st, sk, v) == [x \in DOMAIN st \cup {sk} |-> IF x = sk THEN v ELSE st[x]]
removeItems(st, sks) == [x \in DOMAIN st \ sks |-> st[x]]

\* getFromStorage (lines 280-288): a rejected read or a JSON.parse error is
\* caught and gives null, as does a missing item.  NoEntry stands for null.
getFromStorage(st, f, key) ==
    LET sk == StorageKey(key)
    IN  IF "read" \in f \/ sk \notin DOMAIN st THEN NoEntry
        ELSE IF st[sk].kind # "json" THEN NoEntry
        ELSE Parse(st[sk])

\* setToStorage (lines 269-275): a rejected write is caught and logged.
setToStorage(st, f, key, entry) ==
    IF "write" \in f THEN st ELSE setItem(st, StorageKey(key), Stringify(entry))

-----------------------------------------------------------------------------
(* Calls in flight and the record of completed calls *)

Slots == 1..MaxInFlight

IdleTask ==
    [op |-> "idle", pc |-> "idle", key |-> "", entry |-> NoEntry, mem |-> FALSE,
     keys |-> {}, t0 |-> 0, solo |-> FALSE, override |-> FALSE, complete |-> FALSE]

IdleSweep == [pc |-> "idle", keys |-> <<>>]

InFlight == {i \in Slots : tasks[i].op # "idle"}
FreeSlot == CHOOSE i \in Slots \ InFlight : \A j \in Slots \ InFlight : i <= j
HasSlot == InFlight # Slots

\* A call that starts now follows the last completed call with nothing in between.
Alone == quiet /\ InFlight = {} /\ sweep.pc = "idle"

\* A step of actor i runs between the steps of every other call in flight.
Disturb(i) == [j \in Slots |-> IF j = i THEN tasks[j] ELSE [tasks[j] EXCEPT !.solo = FALSE]]

Push(l, r) == IF Len(l) < 2 THEN Append(l, r) ELSE <<l[2], r>>

\* What a completed call leaves in the log: res is what the promise resolved to
\* ("throw" when it rejected); for a set, data is the value and exp the expiresAt
\* of the entry it built; for a get, exp is the expiresAt of the entry it
\* returned, t0 the time of the call and t1 the time of the return; had says
\* that a tier held the key when remove was called, or that a get which
\* returned null had found an entry (line 164).
Outcome(tk, res, err, exp) ==
    [op |-> tk.op, key |-> tk.key, data |-> tk.entry.data, override |-> tk.override,
     complete |-> tk.complete,
     t0 |-> IF tk.op = "get" THEN tk.t0 ELSE 0,
     t1 |-> IF tk.op = "get" THEN now ELSE 0,
     res |-> res, err |-> err,
     exp |-> IF tk.op = "set" THEN tk.entry.expiresAt ELSE exp,
     had |-> tk.mem, solo |-> tk.solo]

Finish(i, res, err, exp) ==
    /\ tasks' = [Disturb(i) EXCEPT ![i] = IdleTask]
    /\ log' = Push(log, Outcome(tasks[i], res, err, exp))
    /\ quiet' = TRUE

Begin(i, tk) ==
    /\ tasks' = [Disturb(i) EXCEPT ![i] = tk]
    /\ quiet' = FALSE
    /\ UNCHANGED log

-----------------------------------------------------------------------------
(* set (lines 115-139) *)

\* Lines 116-133: the Map after memoryCache.set and the eviction it may trigger,
\* given the sorted array the eviction works on.
SetMemory(m, key, entry, sorted) ==
    IF Len(MapSet(m, key, entry)) > maxMemoryCacheSize
    THEN evictFromMemoryCache(MapSet(m, key, entry), sorted)
    ELSE MapSet(m, key, entry)

\* Up to the await of setToStorage.
SetBody(key, data, customConfig) ==
    LET entry == BuildEntry(key, data, customConfig, now)
        m1 == MapSet(memoryCache, key, entry)
        over == Len(m1) > maxMemoryCacheSize
        config == Spread(Lookup(key), customConfig)
    IN  /\ HasSlot
        /\ \E sorted \in (IF over THEN SortOutcomes(m1) ELSE {m1}) :
              /\ memoryCache' = SetMemory(memoryCache, key, entry, sorted)
              /\ evict' = IF over THEN [fired |-> TRUE, removed |-> Evicted(sorted)]
                          ELSE NoEvict
        /\ Begin(FreeSlot,
                 [IdleTask EXCEPT !.op = "set", !.pc = "write", !.key = key,
                                  !.entry = entry, !.t0 = now, !.solo = Alone,
                                  !.override = (customConfig # NoConfig),
                                  !.complete = (DOMAIN config = {"maxAge", "priority", "type"})])
        /\ UNCHANGED <<now, ticks, storage, faults, cleanupInterval, warm, sweep, unhandled>>

\* The continuation of set: the write has been tried, set returns.
SetResume(i) ==
    /\ tasks[i].op = "set" /\ tasks[i].pc = "write"
    /\ storage' = setToStorage(storage, faults, tasks[i].key, tasks[i].entry)
    /\ Finish(i, "ok", FALSE, Undefined)
    /\ evict' = NoEvict
    /\ UNCHANGED <<now, ticks, memoryCache, faults, cleanupInterval, warm, sweep, calls, fill, unhandled>>

-----------------------------------------------------------------------------
(* get (lines 144-170) *)

\* Line 147: the fast path.
MemoryHit(m, key, t) == MapHas(m, key) /\ ~isExpired(MapEntry(m, key), t)

\* Up to the return of line 149 or the await of getFromStorage.
GetBody(key) ==
    /\ HasSlot
    /\ IF MemoryHit(memoryCache, key, now)
       THEN /\ tasks' = Disturb(0)
            /\ log' = Push(log, Outcome([IdleTask EXCEPT !.op = "get", !.key = key,
                                                         !.mem = TRUE, !.t0 = now,
                                                         !.solo = Alone],
                                        MapEntry(memoryCache, key).data, FALSE,
                                        MapEntry(memoryCache, key).expiresAt))
            /\ quiet' = TRUE
       ELSE Begin(FreeSlot,
                  [IdleTask EXCEPT !.op = "get", !.pc = "read", !.key = key,
                                   !.mem = MapHas(memoryCache, key),
                                   !.t0 = now, !.solo = Alone])
    /\ evict' = NoEvict
    /\ UNCHANGED <<now, ticks, memoryCache, storage, faults, cleanupInterval, warm, sweep, unhandled>>

\* Line 154: the storage entry is served.
StorageHit(stored, t) == stored # NoEntry /\ ~isExpired(stored, t)

\* The continuation after getFromStorage: promote and return, or call remove
\* (whose memoryCache.delete runs before its own await), or return null.
GetResume(i) ==
    LET key == tasks[i].key
        stored == getFromStorage(storage, faults, key)
    IN  /\ tasks[i].op = "get" /\ tasks[i].pc = "read"
        /\ IF StorageHit(stored, now)
           THEN /\ memoryCache' = MapSet(memoryCache, key, stored)
                /\ Finish(i, stored.data, FALSE, stored.expiresAt)
           ELSE IF tasks[i].mem \/ stored # NoEntry
           THEN /\ memoryCache' = MapDelete(memoryCache, key)
                /\ Begin(i, [tasks[i] EXCEPT !.pc = "unlink", !.mem = TRUE])
           ELSE /\ UNCHANGED memoryCache
                /\ Finish(i, None, FALSE, Undefined)
        /\ evict' = NoEvict
        /\ UNCHANGED <<now, ticks, storage, faults, cleanupInterval, warm, sweep, calls, fill, unhandled>>

-----------------------------------------------------------------------------
(* remove (lines 175-179) *)

RemoveBody(key) ==
    /\ HasSlot
    /\ memoryCache' = MapDelete(memoryCache, key)
    /\ Begin(FreeSlot,
             [IdleTask EXCEPT !.op = "remove", !.pc = "unlink", !.key = key,
                              !.mem = (MapHas(memoryCache, key)
                                       \/ StorageKey(key) \in DOMAIN storage),
                              !.t0 = now, !.solo = Alone])
    /\ evict' = NoEvict
    /\ UNCHANGED <<now, ticks, storage, faults, cleanupInterval, warm, sweep, unhandled>>

\* The continuation after AsyncStorage.removeItem, in remove itself or in the
\* remove that get awaits: a rejection is not caught and rejects the caller.
RemoveResume(i) ==
    /\ tasks[i].pc = "unlink"
    /\ IF "delete" \in faults
       THEN /\ UNCHANGED storage
            /\ Finish(i, "throw", TRUE, Undefined)
       ELSE /\ storage' = removeItems(storage, {StorageKey(tasks[i].key)})
            /\ Finish(i, IF tasks[i].op = "get" THEN None ELSE "ok", FALSE, Undefined)
    /\ evict' = NoEvict
    /\ UNCHANGED <<now, ticks, memoryCache, faults, cleanupInterval, warm, sweep, calls, fill, unhandled>>

-----------------------------------------------------------------------------
(* clear (lines 184-190) *)

ClearBody ==
    /\ HasSlot
    /\ memoryCache' = <<>>
    /\ Begin(FreeSlot,
             [IdleTask EXCEPT !.op = "clear", !.pc = "list", !.t0 = now, !.solo = Alone])
    /\ evict' = NoEvict
    /\ UNCHANGED <<now, ticks, storage, faults, cleanupInterval, warm, sweep, unhandled>>

\* keys.filter(key => key.startsWith(this.storagePrefix))
CacheKeys(st) == {sk \in DOMAIN st : sk.ns = storagePrefix}

\* The continuation after getAllKeys.
ClearListed(i) ==
    /\ tasks[i].op = "clear" /\ tasks[i].pc = "list"
    /\ IF "list" \in faults
       THEN Finish(i, "throw", TRUE, Undefined)
       ELSE Begin(i, [tasks[i] EXCEPT !.pc = "multi", !.keys = CacheKeys(storage)])
    /\ evict' = NoEvict
    /\ UNCHANGED <<now, ticks, memoryCache, storage, faults, cleanupInterval, warm, sweep,
                   calls, fill, unhandled>>

\* The continuation after multiRemove.
ClearResume(i) ==
    /\ tasks[i].op = "clear" /\ tasks[i].pc = "multi"
    /\ IF "delete" \in faults
       THEN /\ UNCHANGED storage
            /\ Finish(i, "throw", TRUE, Undefined)
       ELSE /\ storage' = removeItems(storage, tasks[i].keys)
            /\ Finish(i, "ok", FALSE, Undefined)
    /\ evict' = NoEvict
    /\ UNCHANGED <<now, ticks, memoryCache, faults, cleanupInterval, warm, sweep, calls, fill, unhandled>>

-----------------------------------------------------------------------------
(* getCacheStats (lines 195-208) *)

\* A count that ignores the Map, as the storageKeys field of the result does.
countsNothing(m) == 0 * Len(m)

\* this.memoryCache.size
memorySize(m) == Len(m)

\* A synchronous call: it returns within the step that makes it.  The log gets
\* the memorySize it returned, in exp; the other three fields are the literal 0.
getCacheStats ==
    /\ log' = Push(log, Outcome([IdleTask EXCEPT !.op = "stats"], "ok", FALSE,
                                Num(memorySize(memoryCache))))
    /\ evict' = NoEvict
    /\ UNCHANGED <<now, ticks, memoryCache, storage, faults, cleanupInterval, warm, sweep,
                   tasks, quiet, unhandled>>

-----------------------------------------------------------------------------
(* The sweeper (lines 95-110 and 246-264) *)

KeysOf(m) == [i \in 1..Len(m) |-> m[i].key]

\* Lines 251-255: the keys of the expired entries, in Map order.
ExpiredKeys(m, t) == KeysOf(SelectSeq(m, LAMBDA p : isExpired(p.entry, t)))

\* The timer fires: performCleanup up to the await of its first removeItem.
\* A run that finds nothing expired changes nothing.
performCleanup ==
    /\ cleanupInterval
    /\ sweep.pc = "idle"
    /\ ExpiredKeys(memoryCache, now) # <<>>
    /\ memoryCache' = MapDelete(memoryCache, Head(ExpiredKeys(memoryCache, now)))
    /\ sweep' = [pc |-> "unlink", keys |-> ExpiredKeys(memoryCache, now)]
    /\ tasks' = Disturb(0)
    /\ quiet' = FALSE
    /\ evict' = NoEvict
    /\ UNCHANGED <<now, ticks, storage, faults, cleanupInterval, warm, calls, fill, log, unhandled>>

\* The continuation after a removeItem of the loop of lines 258-261: a rejection
\* ends the run as a rejected promise the timer callback does not await.
performCleanupResume ==
    /\ sweep.pc = "unlink"
    /\ IF "delete" \in faults
       THEN /\ sweep' = IdleSweep
            /\ unhandled' = TRUE
            /\ UNCHANGED <<storage, memoryCache>>
       ELSE /\ storage' = removeItems(storage, {StorageKey(Head(sweep.keys))})
            /\ unhandled' = unhandled
            /\ IF Tail(sweep.keys) = <<>>
               THEN /\ sweep' = IdleSweep
                    /\ UNCHANGED memoryCache
               ELSE /\ sweep' = [sweep EXCEPT !.keys = Tail(sweep.keys)]
                    /\ memoryCache' = MapDelete(memoryCache, Head(Tail(sweep.keys)))
    /\ tasks' = Disturb(0)
    /\ quiet' = FALSE
    /\ evict' = NoEvict
    /\ UNCHANGED <<now, ticks, faults, cleanupInterval, warm, calls, fill, log>>

stopCleanupService ==
    /\ cleanupInterval
    /\ cleanupInterval' = FALSE
    /\ evict' = NoEvict
    /\ UNCHANGED <<now, ticks, memoryCache, storage, faults, warm, sweep, tasks, calls, fill,
                   log, quiet, unhandled>>

\* cleanup (lines 293-297)
cleanup ==
    /\ cleanupInterval \/ memoryCache # <<>>
    /\ cleanupInterval' = FALSE
    /\ memoryCache' = <<>>
    /\ tasks' = Disturb(0)
    /\ quiet' = FALSE
    /\ evict' = NoEvict
    /\ UNCHANGED <<now, ticks, storage, faults, warm, sweep, calls, fill, log, unhandled>>

-----------------------------------------------------------------------------
(* Warmup (lines 72-90) *)

\* { ...data, priority: 'high', type: 'critical' }
WarmEntry(data) == [data EXCEPT !.priority = "high", !.type = "critical"]

\* The continuation after the getFromStorage of one critical key; the loop then
\* awaits the read of the next key.
warmupCriticalCache ==
    LET key == criticalKeys[warm]
        data == getFromStorage(storage, faults, key)
    IN  /\ warm <= Len(criticalKeys)
        /\ memoryCache' = IF data # NoEntry
                          THEN MapSet(memoryCache, key, WarmEntry(data))
                          ELSE memoryCache
        /\ warm' = warm + 1
        /\ tasks' = Disturb(0)
        /\ quiet' = FALSE
        /\ evict' = NoEvict
        /\ UNCHANGED <<now, ticks, storage, faults, cleanupInterval, sweep, calls, fill, log, unhandled>>

-----------------------------------------------------------------------------
(* The environment: the clock and the health of AsyncStorage *)

StoredEntries == {Parse(storage[sk]) : sk \in {x \in DOMAIN storage : storage[x].kind = "json"}}
Entries == {memoryCache[i].entry : i \in 1..Len(memoryCache)} \cup StoredEntries

\* The instants at which some entry's expiry is decided: its expiresAt and the
\* millisecond after it.
Instants == {e.expiresAt.n + d : e \in {x \in Entries : x.expiresAt.t = "num"}, d \in {0, 1}}

Tick ==
    /\ ticks < MaxTicks
    /\ ticks' = ticks + 1
    /\ \E t \in Instants : t > now /\ now' = t
    /\ evict' = NoEvict
    /\ UNCHANGED <<memoryCache, storage, faults, cleanupInterval, warm, sweep, tasks,
                   calls, fill, log, quiet, unhandled>>

\* AsyncStorage works, or every call to it rejects.
AllCalls == {"read", "write", "delete", "list"}
FaultModes == {{}, AllCalls}

StorageFault ==
    /\ \E f \in FaultModes : f # faults /\ faults' = f
    /\ evict' = NoEvict
    /\ UNCHANGED <<now, ticks, memoryCache, storage, cleanupInterval, warm, sweep, tasks,
                   calls, fill, log, quiet, unhandled>>

-----------------------------------------------------------------------------
(* The callers of the general specification *)

Keys == {"emergencyContacts", "labResults"}
Data == {"A"}
ZeroWindow == [maxAge |-> 0, priority |-> "low", type |-> "non-critical"]
Overrides == {NoConfig, ZeroWindow}

Counted(limit) == calls < limit /\ calls' = calls + 1 /\ UNCHANGED fill

set(key, data, customConfig) == Counted(MaxCalls) /\ SetBody(key, data, customConfig)
get(key) == Counted(MaxCalls) /\ GetBody(key)
remove(key) == Counted(MaxCalls) /\ RemoveBody(key)
clear == Counted(MaxCalls) /\ ClearBody
stats == Counted(MaxCalls) /\ getCacheStats

\* What an earlier run of the application left in AsyncStorage.
Stored(key, data, t) == Stringify(BuildEntry(key, data, NoConfig, t))

InitialStores ==
    {(ForeignKey :> ForeignItem),
     (ForeignKey :> ForeignItem)
        @@ (StorageKey("emergencyContacts") :> Stored("emergencyContacts", "P", StartTime - 1)),
     (ForeignKey :> ForeignItem)
        @@ (StorageKey("emergencyContacts")
              :> Stored("emergencyContacts", "P", StartTime - cacheConfigs.emergencyContacts.maxAge - 1))
        @@ (StorageKey("userProfile") :> Corrupt)}

\* The state when the constructor returns: the timer is set and the warmup
\* awaits its first read.
Init ==
    /\ now = StartTime
    /\ ticks = 0
    /\ memoryCache = <<>>
    /\ storage \in InitialStores
    /\ faults = {}
    /\ cleanupInterval = TRUE
    /\ warm = 1
    /\ sweep = IdleSweep
    /\ tasks = [i \in Slots |-> IdleTask]
    /\ calls = 0
    /\ fill = 0
    /\ log = <<>>
    /\ quiet = TRUE
    /\ evict = NoEvict
    /\ unhandled = FALSE

Next ==
    \/ \E k \in Keys, d \in Data, c \in Overrides : set(k, d, c)
    \/ \E k \in Keys : get(k)
    \/ \E k \in Keys : remove(k)
    \/ clear
    \/ \E i \in Slots : SetResume(i)
    \/ \E i \in Slots : GetResume(i)
    \/ \E i \in Slots : RemoveResume(i)
    \/ \E i \in Slots : ClearListed(i)
    \/ \E i \in Slots : ClearResume(i)
    \/ performCleanup
    \/ performCleanupResume
    \/ warmupCriticalCache
    \/ Tick
    \/ StorageFault

Spec == Init /\ [][Next]_vars

\* A caller that awaits every call before it makes the next one and uses one
\* key, a critical one; the warmup, the sweeper, the clock and AsyncStorage run
\* as before.
Awaited == InFlight = {}
SeqKeys == {"emergencyContacts"}

NextSeq ==
    \/ \E k \in SeqKeys, d \in Data, c \in Overrides : Awaited /\ set(k, d, c)
    \/ \E k \in SeqKeys : Awaited /\ get(k)
    \/ \E k \in SeqKeys : Awaited /\ remove(k)
    \/ Awaited /\ clear
    \/ \E i \in Slots : SetResume(i)
    \/ \E i \in Slots : GetResume(i)
    \/ \E i \in Slots : RemoveResume(i)
    \/ \E i \in Slots : ClearListed(i)
    \/ \E i \in Slots : ClearResume(i)
    \/ performCleanup
    \/ performCleanupResume
    \/ warmupCriticalCache
    \/ Tick
    \/ StorageFault

SpecSeq == Init /\ [][NextSeq]_vars

\* An AsyncStorage that never fails, and callers that use two registry keys,
\* wait for the warmup to end and then call without awaiting.
Ready == warm > Len(criticalKeys)
RegistryKeys == {"emergencyContacts", "userProfile"}

NextSound ==
    \/ \E k \in RegistryKeys, d \in Data, c \in Overrides : Ready /\ set(k, d, c)
    \/ \E k \in RegistryKeys : Ready /\ get(k)
    \/ \E k \in RegistryKeys : Ready /\ remove(k)
    \/ Ready /\ clear
    \/ \E i \in Slots : SetResume(i)
    \/ \E i \in Slots : GetResume(i)
    \/ \E i \in Slots : RemoveResume(i)
    \/ \E i \in Slots : ClearListed(i)
    \/ \E i \in Slots : ClearResume(i)
    \/ performCleanup
    \/ performCleanupResume
    \/ warmupCriticalCache
    \/ Tick

SpecSound == Init /\ [][NextSound]_vars

\* A monitor that polls getCacheStats at any moment, between the steps of the
\* calls of a caller that does not await; AsyncStorage never fails.
NextStats ==
    \/ \E k \in Keys, d \in Data : set(k, d, NoConfig)
    \/ \E k \in Keys : get(k)
    \/ \E k \in Keys : remove(k)
    \/ clear
    \/ stats
    \/ \E i \in Slots : SetResume(i)
    \/ \E i \in Slots : GetResume(i)
    \/ \E i \in Slots : RemoveResume(i)
    \/ \E i \in Slots : ClearListed(i)
    \/ \E i \in Slots : ClearResume(i)
    \/ performCleanup
    \/ performCleanupResume
    \/ warmupCriticalCache
    \/ Tick

SpecStats == Init /\ [][NextStats]_vars

\* A start on an AsyncStorage damaged since the earlier run: the record of
\* userProfile is not JSON, that of emergencyContacts is JSON but not an entry,
\* that of medicalHistory is intact.  The caller awaits its calls.
DamagedKeys == {"userProfile", "emergencyContacts"}

InitDamaged ==
    /\ now = StartTime
    /\ ticks = 0
    /\ memoryCache = <<>>
    /\ storage = (ForeignKey :> ForeignItem)
                  @@ (StorageKey("userProfile") :> Corrupt)
                  @@ (StorageKey("emergencyContacts") :> Misshapen)
                  @@ (StorageKey("medicalHistory") :> Stored("medicalHistory", "P", StartTime - 1))
    /\ faults = {}
    /\ cleanupInterval = TRUE
    /\ warm = 1
    /\ sweep = IdleSweep
    /\ tasks = [i \in Slots |-> IdleTask]
    /\ calls = 0
    /\ fill = 0
    /\ log = <<>>
    /\ quiet = TRUE
    /\ evict = NoEvict
    /\ unhandled = FALSE

NextDamaged ==
    \/ \E k \in DamagedKeys, d \in Data : Awaited /\ set(k, d, ZeroWindow)
    \/ \E k \in DamagedKeys : Awaited /\ get(k)
    \/ \E i \in Slots : SetResume(i)
    \/ \E i \in Slots : GetResume(i)
    \/ \E i \in Slots : RemoveResume(i)
    \/ warmupCriticalCache
    \/ Tick
    \/ StorageFault

SpecDamaged == InitDamaged /\ [][NextDamaged]_vars

\* An application that caches two registry keys and shuts the cache down, by
\* stopCleanupService or by cleanup, at any moment.
StopKeys == {"emergencyContacts", "userProfile"}

NextStop ==
    \/ \E k \in StopKeys, d \in Data : Awaited /\ set(k, d, NoConfig)
    \/ \E k \in StopKeys : Awaited /\ get(k)
    \/ \E i \in Slots : SetResume(i)
    \/ \E i \in Slots : GetResume(i)
    \/ \E i \in Slots : RemoveResume(i)
    \/ performCleanup
    \/ performCleanupResume
    \/ stopCleanupService
    \/ cleanup
    \/ warmupCriticalCache
    \/ Tick

SpecStop == Init /\ [][NextStop]_vars

\* An AsyncStorage that may stop answering: from then on none of its promises
\* settles, so no continuation that awaits one runs.  The code sets no timer
\* on its awaits (lines 77, 136, 153, 177), so nothing else resumes the call.
\* A promise that settles does run its continuation: each continuation is
\* weakly fair.
Hung == "hang" \in faults

StorageHangs ==
    /\ faults = {}
    /\ faults' = {"hang"}
    /\ evict' = NoEvict
    /\ UNCHANGED <<now, ticks, memoryCache, storage, cleanupInterval, warm, sweep, tasks,
                   calls, fill, log, quiet, unhandled>>

SetSettles == \E i \in Slots : ~Hung /\ SetResume(i)
GetSettles == \E i \in Slots : ~Hung /\ GetResume(i)
RemoveSettles == \E i \in Slots : ~Hung /\ RemoveResume(i)
WarmupSettles == ~Hung /\ warmupCriticalCache

NextHang ==
    \/ \E k \in Keys, d \in Data, c \in Overrides : Awaited /\ set(k, d, c)
    \/ \E k \in Keys : Awaited /\ get(k)
    \/ SetSettles
    \/ GetSettles
    \/ RemoveSettles
    \/ WarmupSettles
    \/ Tick
    \/ StorageHangs

SpecHang ==
    /\ Init /\ [][NextHang]_vars
    /\ WF_vars(SetSettles) /\ WF_vars(GetSettles)
    /\ WF_vars(RemoveSettles) /\ WF_vars(WarmupSettles)

-----------------------------------------------------------------------------
(* A caller that fills the cache: it caches NumFillers records one after the  *)
(* other, each under its own key and with a full policy of its own, then      *)
(* reads back the records that are no longer in memory.  Once the cache is    *)
(* nearly full, and not while it reads records back, it also uses two keys of *)
(* its own: one the registry knows and one it does not.                       *)

RecordKey(i) == "record_" \o ToString(i)

RecordConfig(i) ==
    [maxAge |-> 2 * 60 * 60 * 1000,
     priority |-> IF i % 5 = 0 THEN "normal" ELSE "high",
     type |-> IF i % 5 = 0 THEN "normal" ELSE "critical"]

Settled == warm > Len(criticalKeys) /\ InFlight = {}

FillSet ==
    /\ Settled
    /\ fill < NumFillers
    /\ fill' = fill + 1
    /\ UNCHANGED calls
    /\ SetBody(RecordKey(fill + 1), "R", RecordConfig(fill + 1))

\* The records written to AsyncStorage that the Map no longer holds.
Dropped ==
    {i \in 1..fill : /\ ~MapHas(memoryCache, RecordKey(i))
                     /\ StorageKey(RecordKey(i)) \in DOMAIN storage}

FillGet ==
    /\ Settled
    /\ fill = NumFillers
    /\ Dropped # {}
    /\ UNCHANGED <<calls, fill>>
    /\ GetBody(RecordKey(CHOOSE i \in Dropped : \A j \in Dropped : i <= j))

ProbeKeys == {"notifications", "labResults"}
ProbeFrom == maxMemoryCacheSize - 2

Probing == Settled /\ fill >= ProbeFrom /\ (fill = NumFillers => Dropped = {})

InitCap ==
    /\ now = StartTime
    /\ ticks = 0
    /\ memoryCache = <<>>
    /\ storage = (ForeignKey :> ForeignItem)
    /\ faults \in {{}, {"write"}}
    /\ cleanupInterval = TRUE
    /\ warm = 1
    /\ sweep = IdleSweep
    /\ tasks = [i \in Slots |-> IdleTask]
    /\ calls = 0
    /\ fill = 0
    /\ log = <<>>
    /\ quiet = TRUE
    /\ evict = NoEvict
    /\ unhandled = FALSE

NextCap ==
    \/ warmupCriticalCache
    \/ FillSet
    \/ FillGet
    \/ \E k \in ProbeKeys : Probing /\ Counted(MaxProbes) /\ SetBody(k, "A", NoConfig)
    \/ \E k \in ProbeKeys : Probing /\ Counted(MaxProbes) /\ GetBody(k)
    \/ \E i \in Slots : SetResume(i)
    \/ \E i \in Slots : GetResume(i)

SpecCap == InitCap /\ [][NextCap]_vars

-----------------------------------------------------------------------------
(* The claims *)

Last(l) == l[Len(l)]

\* The log holds two calls that ran one after the other, alone: nothing else
\* ran while either was in flight, and nothing between them.
Consecutive(op1, op2) ==
    /\ Len(log) = 2
    /\ log[1].op = op1 /\ log[2].op = op2
    /\ log[1].key = log[2].key
    /\ log[1].solo /\ log[2].solo

\* C1: a set of a registry key without override, followed at once by a get of
\* the key, gives the stored value when the get returns before expiresAt and
\* null when the get is called at or after expiresAt.
C1_SetThenGet ==
    (/\ Consecutive("set", "get")
     /\ log[1].key \in DOMAIN cacheConfigs
     /\ ~log[1].override)
    => /\ log[2].t1 < log[1].exp.n => log[2].res = log[1].data
       /\ log[2].t0 >= log[1].exp.n => log[2].res = None

\* C2: no get returns the data of an entry whose expiresAt is at or before the
\* time of the return.
C2_NeverReturnsExpired ==
    \A i \in 1..Len(log) :
        (log[i].op = "get" /\ ~log[i].err /\ log[i].res # None /\ log[i].exp.t = "num")
        => log[i].exp.n > log[i].t1

\* C3: when a set has returned, the Map holds at most maxMemoryCacheSize entries.
C3_SizeAfterSet ==
    (quiet /\ log # <<>> /\ Last(log).op = "set")
    => Len(memoryCache) <= maxMemoryCacheSize

C5_RemoveThenGet ==
    Consecutive("remove", "get") => (log[2].res = None /\ ~log[2].err)

\* C6: when clear has returned, the Map is empty, AsyncStorage holds no key
\* with the cache prefix, and the other keys of AsyncStorage are as they were.
C6_ClearEmptiesBoth ==
    /\ (quiet /\ log # <<>> /\ Last(log).op = "clear" /\ ~Last(log).err)
       => (memoryCache = <<>> /\ CacheKeys(storage) = {})
    /\ ForeignKey \in DOMAIN storage /\ storage[ForeignKey] = ForeignItem

\* C7: a remove of a key that neither tier holds reports no error and leaves
\* the key absent from both tiers.
C7_RemoveAbsent ==
    (quiet /\ log # <<>> /\ Last(log).op = "remove" /\ Last(log).solo /\ ~Last(log).had)
    => /\ ~Last(log).err
       /\ ~MapHas(memoryCache, Last(log).key)
       /\ StorageKey(Last(log).key) \notin DOMAIN storage

\* C8: while AsyncStorage rejects every write, a set returns without error and
\* a get that follows it inside the freshness window returns the value set.
C8_SetSurvivesWriteFailure ==
    (/\ Consecutive("set", "get")
     /\ faults = {"write"}
     /\ log[1].exp.t = "num"
     /\ log[2].t1 < log[1].exp.n)
    => (~log[1].err /\ log[2].res = log[1].data)

\* C9: a set whose merged policy lacks maxAge, priority or type rejects with
\* MissingPolicy and stores nothing under the key in either tier.
C9_MissingPolicyRejected ==
    (quiet /\ log # <<>> /\ Last(log).op = "set" /\ Last(log).solo /\ ~Last(log).complete)
    => /\ Last(log).err
       /\ ~MapHas(memoryCache, Last(log).key)

\* C10: no rejection of AsyncStorage reaches a caller or escapes a sweep: the
\* only call that rejects is a set without a complete policy.
C10_NoStorageErrorEscapes ==
    /\ \A i \in 1..Len(log) : log[i].err => (log[i].op = "set" /\ ~log[i].complete)
    /\ ~unhandled

C12_SequentialSets ==
    (calls = 0 /\ fill <= maxMemoryCacheSize + 10)
    => /\ Len(memoryCache) + Len(evict.removed) <= maxMemoryCacheSize + 1
       /\ (Settled /\ fill = maxMemoryCacheSize + 10)
          => Len(memoryCache) = maxMemoryCacheSize

\* The last of the capacity + 10 sets has returned, after an eviction.
C12_Witness ==
    /\ calls = 0 /\ Settled
    /\ fill = maxMemoryCacheSize + 10
    /\ ~MapHas(memoryCache, RecordKey(5))
    /\ Len(memoryCache) = maxMemoryCacheSize

\* C13: when the continuation of a get that missed the Map finds in
\* AsyncStorage a record of the key that expires after now, the get returns
\* the data of the record and leaves in the Map an entry with the data,
\* timestamp, expiresAt, priority and type of the record.
C13_PromotionCopies ==
    [][\A i \in Slots :
         LET key == tasks[i].key
             sk == StorageKey(tasks[i].key)
         IN  (/\ tasks[i].op = "get" /\ tasks[i].pc = "read"
              /\ tasks'[i].pc # "read"
              /\ "read" \notin faults
              /\ sk \in DOMAIN storage
              /\ storage[sk].kind = "json"
              /\ storage[sk].expiresAt.t = "num"
              /\ storage[sk].expiresAt.n > now)
             => /\ tasks'[i].op = "idle"
                /\ Last(log').op = "get" /\ Last(log').key = key
                /\ ~Last(log').err
                /\ Last(log').res = storage[sk].data
                /\ MapHas(memoryCache', key)
                /\ MapEntry(memoryCache', key).data = storage[sk].data
                /\ MapEntry(memoryCache', key).timestamp = storage[sk].timestamp
                /\ MapEntry(memoryCache', key).expiresAt = storage[sk].expiresAt
                /\ MapEntry(memoryCache', key).priority = storage[sk].priority
                /\ MapEntry(memoryCache', key).type = storage[sk].type
      ]_vars

\* A get that missed the Map has just returned what AsyncStorage held.
C13_Witness ==
    /\ quiet /\ log # <<>>
    /\ Last(log).op = "get" /\ ~Last(log).had /\ ~Last(log).err
    /\ Last(log).res = "P"
    /\ MapHas(memoryCache, Last(log).key)
    /\ MapEntry(memoryCache, Last(log).key).data = "P"

\* C14: once the timer is cleared, no run of performCleanup starts, and a run
\* that was in flight goes no further: the removeItem it awaits may complete,
\* but it deletes nothing more from the Map and issues no other removeItem.
C14_StopCancelsSweeper ==
    [][~cleanupInterval
       => /\ sweep.pc = "idle" => sweep'.pc = "idle"
          /\ sweep' # sweep => (sweep'.pc = "idle" /\ memoryCache' = memoryCache)
      ]_vars

\* C15: every get and every set that is called returns, and the warmup ends,
\* also when AsyncStorage stops answering.
C15_EveryCallCompletes ==
    /\ \A i \in Slots : (tasks[i].op \in {"get", "set"}) ~> (tasks[i].op = "idle")
    /\ (warm <= Len(criticalKeys)) ~> (warm > Len(criticalKeys))

\* An entry the specification counts as expired at time t.
Lapsed(e, t) == e.expiresAt.t = "num" /\ e.expiresAt.n <= t

\* C16: a run of performCleanup collects, when it scans, every entry of the Map
\* whose expiresAt is at or before now; every entry a step of the run deletes
\* from the Map is such an entry; and the run deletes from AsyncStorage only
\* keys it collected.
C16_SweepRemovesExpiredOnly ==
    [][sweep' # sweep
       => /\ sweep.pc = "idle"
             => \A k \in MapKeys(memoryCache) :
                   Lapsed(MapEntry(memoryCache, k), now)
                   => \E n \in 1..Len(sweep'.keys) : sweep'.keys[n] = k
          /\ \A k \in MapKeys(memoryCache) \ MapKeys(memoryCache') :
                Lapsed(MapEntry(memoryCache, k), now)
          /\ \A sk \in DOMAIN storage \ DOMAIN storage' :
                \E n \in 1..Len(sweep.keys) : StorageKey(sweep.keys[n]) = sk
      ]_vars

\* C17: a step of the warmup puts an entry in the Map only under one of the
\* critical keys and only when AsyncStorage holds a record of the key that
\* expires after now; the entry has priority high and type critical; and the
\* warmup goes on to the next key whatever the read of a key gave.
C17_WarmupLoadsFresh ==
    [][warm' # warm
       => LET key == criticalKeys[warm]
              sk == StorageKey(criticalKeys[warm])
          IN  /\ warm' = warm + 1
              /\ \A k \in MapKeys(memoryCache') :
                    (~MapHas(memoryCache, k)
                     \/ MapEntry(memoryCache', k) # MapEntry(memoryCache, k))
                    => /\ k = key
                       /\ sk \in DOMAIN storage
                       /\ storage[sk].kind = "json"
                       /\ ~Lapsed(Parse(storage[sk]), now)
                       /\ storage[sk].expiresAt.t = "num"
                       /\ MapEntry(memoryCache', k).priority = "high"
                       /\ MapEntry(memoryCache', k).type = "critical"
      ]_vars

\* C18: the warmup ends before any call of set, get, remove or clear takes
\* effect: no call is made while the warmup has keys left to read, and no step
\* of the warmup replaces an entry that is in the Map.
C18_WarmupBeforeCalls ==
    [][/\ warm <= Len(criticalKeys) => calls' = calls
       /\ warm' # warm
          => \A k \in MapKeys(memoryCache) :
                /\ MapHas(memoryCache', k)
                /\ MapEntry(memoryCache', k) = MapEntry(memoryCache, k)
      ]_vars

\* C19: with an AsyncStorage that never fails, whenever no call and no run of
\* the sweeper is in flight, AsyncStorage holds, for every key of the Map, a
\* record with the data and the expiresAt of the Map's entry.
C19_TiersAgree ==
    (InFlight = {} /\ sweep.pc = "idle" /\ Ready)
    => \A k \in MapKeys(memoryCache) :
          /\ StorageKey(k) \in DOMAIN storage
          /\ storage[StorageKey(k)].kind = "json"
          /\ storage[StorageKey(k)].data = MapEntry(memoryCache, k).data
          /\ storage[StorageKey(k)].expiresAt = MapEntry(memoryCache, k).expiresAt

\* C20: every entry of the Map and every record of the cache in AsyncStorage
\* whose expiresAt is a number has expiresAt after its timestamp.
C20_ExpiresAfterCreated ==
    /\ \A i \in 1..Len(memoryCache) :
          memoryCache[i].entry.expiresAt.t = "num"
          => memoryCache[i].entry.expiresAt.n > memoryCache[i].entry.timestamp
    /\ \A sk \in CacheKeys(storage) :
          (storage[sk].kind = "json" /\ storage[sk].expiresAt.t = "num")
          => storage[sk].expiresAt.n > storage[sk].timestamp

\* C21: the entry a set builds has the window, priority and type of its
\* override when it has one, and those of the key's entry in cacheConfigs when
\* it has none, whatever calls were made before, with or without override.
C21_OverrideIsPerCall ==
    \A i \in Slots :
        (tasks[i].op = "set" /\ tasks[i].key \in DOMAIN cacheConfigs)
        => LET e == tasks[i].entry
               policy == IF tasks[i].override THEN ZeroWindow
                         ELSE cacheConfigs[tasks[i].key]
           IN  /\ e.expiresAt = Num(e.timestamp + policy.maxAge)
               /\ e.priority = policy.priority
               /\ e.type = policy.type

\* A set without override is in flight after a set of the same key with an
\* override has returned.
C21_Witness ==
    /\ log # <<>>
    /\ Last(log).op = "set" /\ Last(log).override
    /\ \E i \in Slots : /\ tasks[i].op = "set" /\ ~tasks[i].override
                        /\ tasks[i].key = Last(log).key
                        /\ tasks[i].entry.priority = "high"

\* The read of the key gives no entry: AsyncStorage rejects the read, or the
\* string it holds is not JSON, or is JSON without the fields of an entry.
Unreadable(key) ==
    \/ "read" \in faults
    \/ /\ StorageKey(key) \in DOMAIN storage
       /\ \/ storage[StorageKey(key)].kind # "json"
          \/ ~({"data", "timestamp", "expiresAt"} \subseteq storage[StorageKey(key)].props)

\* C22: when the read of the key gives no entry, a get that found nothing in
\* the Map returns null without error and leaves the Map as it was, a get
\* that found an expired entry in the Map goes on to remove it, and a step of
\* the warmup leaves the Map as it was and goes on to the next key.
C22_UnreadableIsAbsent ==
    [][/\ \A i \in Slots :
            (/\ tasks[i].op = "get" /\ tasks[i].pc = "read" /\ tasks'[i].pc # "read"
             /\ Unreadable(tasks[i].key))
            => IF tasks[i].mem
               THEN tasks'[i].pc = "unlink"
               ELSE /\ tasks'[i].op = "idle"
                    /\ Last(log').res = None /\ ~Last(log').err
                    /\ memoryCache' = memoryCache
       /\ (warm' # warm /\ Unreadable(criticalKeys[warm]))
          => (memoryCache' = memoryCache /\ warm' = warm + 1)
      ]_vars

C24_StatsIsSnapshot ==
    [][(calls' = calls + 1 /\ tasks' = tasks /\ log' # <<>> /\ Last(log').op = "stats")
       => /\ memoryCache' = memoryCache
          /\ storage' = storage
          /\ Last(log').exp = Num(Len(memoryCache))
          /\ Last(log').exp = Num(Len(memoryCache'))]_vars

\* getCacheStats is called after a set that put a second entry in the Map, and
\* reports 2.
C24_Witness ==
    /\ Len(log) = 2
    /\ log[1].op = "set"
    /\ log[2].op = "stats"
    /\ log[2].exp = Num(2)
    /\ Len(memoryCache) = 2

\* C25: a step of a sweep that resumes after an await removes from the Map no
\* entry whose expiresAt is later than now, so an entry a set put under a
\* collected key while the sweep awaited stays in the Map as the set built it.
C25_SweepSparesRefreshed ==
    [][(sweep.pc = "unlink" /\ sweep' # sweep)
       => \A k \in MapKeys(memoryCache) :
             ~Lapsed(MapEntry(memoryCache, k), now)
             => /\ MapHas(memoryCache', k)
                /\ MapEntry(memoryCache', k) = MapEntry(memoryCache, k)
      ]_vars

\* C26: when a get that found an expired entry in the Map resumes after its
\* read of AsyncStorage, it removes from the Map no entry of its key whose
\* expiresAt is later than now: an entry a set put there meanwhile stays.
C26_GetSparesRefreshed ==
    [][\A i \in Slots :
          (/\ tasks[i].op = "get" /\ tasks[i].pc = "read" /\ tasks[i].mem
           /\ tasks'[i] # tasks[i]
           /\ MapHas(memoryCache, tasks[i].key)
           /\ ~Lapsed(MapEntry(memoryCache, tasks[i].key), now))
          => MapHas(memoryCache', tasks[i].key)
      ]_vars

\* C27: when a set has returned and nothing has run since, the Map holds under
\* its key the entry the set built: the eviction the set triggered removed
\* other keys only.
C27_EvictsOtherKeys ==
    (quiet /\ InFlight = {} /\ log # <<>> /\ Last(log).op = "set")
    => /\ MapHas(memoryCache, Last(log).key)
       /\ MapEntry(memoryCache, Last(log).key).data = Last(log).data
       /\ MapEntry(memoryCache, Last(log).key).expiresAt = Last(log).exp

====
